---- MODULE Spec2Model ----
(***************************************************************************)
(* A model of src/ast_store_tool.py: the persisted document-outline tree   *)
(* ("AST") behind the single tool function ast_store.                      *)
(*                                                                         *)
(* Encoding of Python values:                                              *)
(*   str            a sequence of one-character strings, "" is <<>>        *)
(*   Optional[T]    a sequence of length 0 (None) or 1 (<<v>>)             *)
(*   List[int]      a sequence of integers                                 *)
(*   node dict      [section_title, content_summary, children]             *)
(*   the AST dict   [file_name, root]                                      *)
(*   the file       [exists, text]; text is the JSON document json.dumps   *)
(*                  writes and json.load reads back, as nested tagged      *)
(*                  tuples, or <<>> for a file that holds nothing          *)
(* The updated_at timestamp of a response is left out: no claim reads it.  *)
(*                                                                         *)
(* Spec, SpecTitles, SpecJoin and SpecPaths run one call at a time, each   *)
(* call to its return. SpecReader and SpecWriters run two calls at once    *)
(* and step through _atomic_write_text: there the file is a directory      *)
(* entry and the units of text written behind it.                          *)
(***************************************************************************)
EXTENDS Integers, Sequences, FiniteSets, TLC

VARIABLES
    disk,        \* the file at ast_path
    pre,         \* the file as it was when the outstanding call started
    call,        \* the arguments of the call whose response is outstanding
    res,         \* the response of that call
    lastUpsert,  \* the call before it and its response, kept when that call
                 \* was a successful upsert_child_by_title (else NoCall/NoRes)
    fs,          \* concurrent calls: the directory entries ast_path and
                 \* ast_path + ".tmp" and the contents of the files behind them
    proc,        \* concurrent calls: each process's position in ast_store
    start       \* concurrent calls: the file when the calls started

vars == <<disk, pre, call, res, lastUpsert, fs, proc, start>>

----------------------------------------------------------------------------
(* Python values *)

None == <<>>

Some(v) == <<v>>

IsNone(o) == o = None

\* Python truthiness of an Optional[str]: None and "" are falsy.
Truthy(o) == o # None /\ o[1] # <<>>

\* `o or d` for an Optional[str] o and a str d.
OrElse(o, d) == IF Truthy(o) THEN o[1] ELSE d

\* str.isspace on one character, over the characters the model uses.
IsSpace(c) == c \in {" ", "\n"}

\* str.lower on one character.
LowerChar(c) ==
    CASE c = "A" -> "a"
      [] c = "B" -> "b"
      [] c = "X" -> "x"
      [] OTHER -> c

RECURSIVE lower(_)
lower(s) == IF s = <<>> THEN <<>> ELSE <<LowerChar(Head(s))>> \o lower(Tail(s))

RECURSIVE rstrip(_)
rstrip(s) ==
    IF s = <<>> THEN <<>>
    ELSE IF IsSpace(s[Len(s)]) THEN rstrip(SubSeq(s, 1, Len(s) - 1))
    ELSE s

RECURSIVE lstrip(_)
lstrip(s) ==
    IF s = <<>> THEN <<>>
    ELSE IF IsSpace(s[1]) THEN lstrip(Tail(s))
    ELSE s

\* `q in hay` on two strings.
StrIn(q, hay) ==
    \E i \in 0..(Len(hay) - Len(q)) : SubSeq(hay, i + 1, i + Len(q)) = q

----------------------------------------------------------------------------
(* Nodes and paths *)

_make_node(section_title, content_summary) ==
    [section_title |-> section_title,
     content_summary |-> content_summary,
     children |-> <<>>]

_normalize_path_indices(path_indices) ==
    IF IsNone(path_indices) THEN <<>> ELSE path_indices[1]

\* Every node the program writes carries a children list, so the branch that
\* injects a missing list and the one that rejects a non-list never run.
_get_children_list(node) == node.children

\* The bounds check with the last valid index taken for out of range.
IndexOutOfRangeAtLast(idx, children) == idx < 0 \/ idx >= Len(children) - 1

\* The bounds check of _traverse on one index.
IndexOutOfRange(idx, children) == idx < 0 \/ idx >= Len(children)

\* The loop of _traverse from node current on: the node at node_path, or the
\* IndexError of the first index outside 0..len(children)-1, with that index
\* and that length.
RECURSIVE TraverseFrom(_, _)
TraverseFrom(current, node_path) ==
    IF node_path = <<>> THEN [ok |-> TRUE, node |-> current]
    ELSE LET children == _get_children_list(current)
             idx == Head(node_path)
         IN  IF IndexOutOfRange(idx, children)
             THEN [ok |-> FALSE,
                   error |-> [kind |-> "IndexError", idx |-> idx,
                              len |-> Len(children)]]
             ELSE TraverseFrom(children[idx + 1], Tail(node_path))

\* The root is always a dict in a file the program wrote, so the "missing
\* 'root' object" error never fires.
_traverse(ast, node_path) == TraverseFrom(ast.root, node_path)

\* The tree with the node at node_path (a path _traverse resolved) replaced
\* by new: what an assignment through the reference _traverse returned does
\* to the in-memory AST.
RECURSIVE ReplaceFrom(_, _, _)
ReplaceFrom(current, node_path, new) ==
    IF node_path = <<>> THEN new
    ELSE [current EXCEPT !.children[Head(node_path) + 1] =
              ReplaceFrom(@, Tail(node_path), new)]

ReplaceNode(ast, node_path, new) ==
    [ast EXCEPT !.root = ReplaceFrom(@, node_path, new)]

\* An insert that ignores pos and appends.
ListInsertAtEnd(list, pos, x) == Append(list, x)

\* An insert that puts x in the place of the element at pos.
ListInsertReplacing(list, pos, x) ==
    IF pos < Len(list) THEN [list EXCEPT ![pos + 1] = x] ELSE Append(list, x)

\* list.insert(pos, x) for 0 <= pos <= len(list).
ListInsert(list, pos, x) ==
    SubSeq(list, 1, pos) \o <<x>> \o SubSeq(list, pos + 1, Len(list))

----------------------------------------------------------------------------
(* _find_nodes_by_title *)

\* One match entry: {"path": path, "section_title": node.get("section_title")}.
MatchEntry(node, path) == [path |-> path, section_title |-> node.section_title]

\* `q in hay` with hay the title as stored, never lowered.
TitleMatchesAsStored(node, q, case_sensitive) ==
    StrIn(q, OrElse(node.section_title, <<>>))

\* `q in hay` of walk, with hay the title (or "") lowered unless case_sensitive.
TitleMatches(node, q, case_sensitive) ==
    LET title == OrElse(node.section_title, <<>>)
        hay == IF case_sensitive THEN title ELSE lower(title)
    IN  StrIn(q, hay)

\* walk(node, path) with the results list threaded through; WalkChildren is
\* its loop over enumerate(children) from index i on.
RECURSIVE walk(_, _, _, _, _, _)
RECURSIVE WalkChildren(_, _, _, _, _, _, _)
walk(node, path, results, q, max_results, case_sensitive) ==
    IF Len(results) >= max_results THEN results
    ELSE LET hit == TitleMatches(node, q, case_sensitive)
             r1 == IF hit THEN Append(results, MatchEntry(node, path))
                   ELSE results
         IN  IF hit /\ Len(r1) >= max_results THEN r1
             ELSE WalkChildren(_get_children_list(node), 0, path, r1, q,
                               max_results, case_sensitive)

WalkChildren(children, i, path, results, q, max_results, case_sensitive) ==
    IF i >= Len(children) THEN results
    ELSE WalkChildren(children, i + 1, path,
                      walk(children[i + 1], Append(path, i), results, q,
                           max_results, case_sensitive),
                      q, max_results, case_sensitive)

\* The search without the early return on an empty query.
_find_nodes_by_titleAnyQuery(ast, title_query, max_results, case_sensitive) ==
    LET q == IF case_sensitive THEN title_query ELSE lower(title_query)
    IN  walk(ast.root, <<>>, <<>>, q, max_results, case_sensitive)

_find_nodes_by_title(ast, title_query, max_results, case_sensitive) ==
    IF title_query = <<>> THEN <<>>
    ELSE LET q == IF case_sensitive THEN title_query ELSE lower(title_query)
         IN  walk(ast.root, <<>>, <<>>, q, max_results, case_sensitive)

----------------------------------------------------------------------------
(* The file: json.dumps, json.load, the write *)

\* JSON values: <<"null">>, <<"string", s>>, <<"array", items>> and, for
\* the two object shapes the program writes, <<"object", ...>> with the
\* values of the keys in the order they are written.
Json(section_title) ==
    IF IsNone(section_title) THEN <<"null">> ELSE <<"string", section_title[1]>>

RECURSIVE DumpNode(_)
RECURSIVE DumpList(_)
DumpNode(node) ==
    <<"object", Json(node.section_title), <<"string", node.content_summary>>,
      <<"array", DumpList(node.children)>>>>

DumpList(children) ==
    IF children = <<>> THEN <<>>
    ELSE <<DumpNode(Head(children))>> \o DumpList(Tail(children))

\* json.dumps of the AST dict.
_dump_json(ast) ==
    <<"object", <<"string", ast.file_name>>, DumpNode(ast.root)>>

RECURSIVE LoadNode(_)
RECURSIVE LoadList(_)
LoadNode(json) ==
    [section_title |-> IF json[2] = <<"null">> THEN None ELSE Some(json[2][2]),
     content_summary |-> json[3][2],
     children |-> LoadList(json[4][2])]

LoadList(items) ==
    IF items = <<>> THEN <<>>
    ELSE <<LoadNode(Head(items))>> \o LoadList(Tail(items))

\* json.load of the file's text: the AST dict, or the JSONDecodeError of a
\* text that is not a whole document.
_load_json(text) ==
    IF Len(text) # 3 THEN [ok |-> FALSE]
    ELSE [ok |-> TRUE,
          ast |-> [file_name |-> text[2][2], root |-> LoadNode(text[3])]]

NoFile == [exists |-> FALSE, text |-> <<>>]

\* The file after _atomic_write_text(ast_path, text) returns: the temporary
\* sibling holds text and os.replace has moved it over ast_path.
_atomic_write_text(text) == [exists |-> TRUE, text |-> text]

----------------------------------------------------------------------------
(* ast_store *)

\* The keyword arguments of ast_store with their defaults (ast_path is fixed).
DefaultMaxResults == 20

DefaultArgs ==
    [action |-> "none", file_name |-> None, root_title |-> None,
     root_summary |-> Some(<<>>), node_path |-> None, parent_path |-> None,
     section_title |-> None, content_summary |-> None, append_text |-> None,
     position |-> None, title_query |-> None,
     max_results |-> DefaultMaxResults, case_sensitive |-> FALSE]

\* An {"ok": false, "error": ...} response; the message is kept as its kind
\* and the values it is formatted from.
Failure(error) == [ok |-> FALSE, error |-> error]

Required(field, action) ==
    Failure([kind |-> "required", field |-> field, action |-> action])

Max(a, b) == IF a >= b THEN a ELSE b

\* The match loop taking a title that contains section_title for a match.
FoundIndexSubstring(children, section_title) ==
    LET hits == {i \in 0..(Len(children) - 1) :
                    StrIn(section_title,
                          OrElse(children[i + 1].section_title, <<>>))}
    IN  IF hits = {} THEN None
        ELSE Some(CHOOSE i \in hits : \A j \in hits : i <= j)

\* The match loop running to its end, so that the last match stands.
FoundIndexLast(children, section_title) ==
    LET hits == {i \in 0..(Len(children) - 1) :
                    OrElse(children[i + 1].section_title, <<>>) = section_title}
    IN  IF hits = {} THEN None
        ELSE Some(CHOOSE i \in hits : \A j \in hits : j <= i)

\* The first i of enumerate(children) whose (title or "") equals
\* section_title, as an Optional[int].
FoundIndex(children, section_title) ==
    LET hits == {i \in 0..(Len(children) - 1) :
                    OrElse(children[i + 1].section_title, <<>>) = section_title}
    IN  IF hits = {} THEN None
        ELSE Some(CHOOSE i \in hits : \A j \in hits : i <= j)

\* The range check with len(children) itself taken for out of range.
PositionOutOfRangeAtLen(pos, children) == pos < 0 \/ pos >= Len(children)

\* The range check of append_child on an explicit position.
PositionOutOfRange(pos, children) == pos < 0 \/ pos > Len(children)

\* The join without the trimming of either side.
UpsertJoinUntrimmed(existing, content_summary) ==
    IF existing # <<>> THEN existing \o <<"\n">> \o content_summary
    ELSE content_summary

\* The summary upsert_child_by_title leaves on a matching child.
UpsertJoin(existing, content_summary) ==
    IF existing # <<>>
    THEN rstrip(existing) \o <<"\n">> \o lstrip(content_summary)
    ELSE content_summary

\* The join made also onto an empty summary.
AppendJoinAlways(existing, append_text) ==
    rstrip(existing) \o <<"\n">> \o lstrip(append_text)

\* The summary append_to_summary leaves on the node.
AppendJoin(existing, append_text) ==
    IF existing # <<>>
    THEN rstrip(existing) \o <<"\n">> \o lstrip(append_text)
    ELSE append_text

\* init that keeps the children of the root the file already holds.
InitBranchKeepChildren(d, c) ==
    IF ~ Truthy(c.file_name)
    THEN [disk |-> d, res |-> Required("file_name", "init")]
    ELSE LET old == _load_json(d.text)
             kept == IF d.exists /\ old.ok THEN old.ast.root.children ELSE <<>>
             root == _make_node(Some(OrElse(c.root_title, c.file_name[1])),
                                OrElse(c.root_summary, <<>>))
             ast == [file_name |-> c.file_name[1],
                     root |-> [root EXCEPT !.children = kept]]
         IN  [disk |-> _atomic_write_text(_dump_json(ast)),
              res |-> [ok |-> TRUE, action |-> "init",
                       file_name |-> c.file_name[1]]]

\* init that titles the root with file_name whatever root_title is.
InitBranchFileNameTitle(d, c) ==
    IF ~ Truthy(c.file_name)
    THEN [disk |-> d, res |-> Required("file_name", "init")]
    ELSE LET ast == [file_name |-> c.file_name[1],
                     root |-> _make_node(Some(c.file_name[1]),
                                         OrElse(c.root_summary, <<>>))]
         IN  [disk |-> _atomic_write_text(_dump_json(ast)),
              res |-> [ok |-> TRUE, action |-> "init",
                       file_name |-> c.file_name[1]]]

InitBranch(d, c) ==
    IF ~ Truthy(c.file_name)
    THEN [disk |-> d, res |-> Required("file_name", "init")]
    ELSE LET ast == [file_name |-> c.file_name[1],
                     root |-> _make_node(
                                  Some(OrElse(c.root_title, c.file_name[1])),
                                  OrElse(c.root_summary, <<>>))]
         IN  [disk |-> _atomic_write_text(_dump_json(ast)),
              res |-> [ok |-> TRUE, action |-> "init",
                       file_name |-> c.file_name[1]]]

LoadBranch(d, ast) ==
    [disk |-> d, res |-> [ok |-> TRUE, action |-> "load", ast |-> ast]]

\* load_subtree that saves the tree re-rooted at the node it returns.
LoadSubtreeBranchSaving(d, ast, c) ==
    LET node_path_n == _normalize_path_indices(c.node_path)
        ref == _traverse(ast, node_path_n)
    IN  IF ~ ref.ok THEN [disk |-> d, res |-> Failure(ref.error)]
        ELSE [disk |-> _atomic_write_text(
                           _dump_json([ast EXCEPT !.root = ref.node])),
              res |-> [ok |-> TRUE, action |-> "load_subtree",
                       node_path |-> node_path_n, node |-> ref.node]]

LoadSubtreeBranch(d, ast, c) ==
    LET node_path_n == _normalize_path_indices(c.node_path)
        ref == _traverse(ast, node_path_n)
    IN  IF ~ ref.ok THEN [disk |-> d, res |-> Failure(ref.error)]
        ELSE [disk |-> d,
              res |-> [ok |-> TRUE, action |-> "load_subtree",
                       node_path |-> node_path_n, node |-> ref.node]]

\* find_by_title with the cap one above what it should be.
FindByTitleBranchCapPlusOne(d, ast, c) ==
    LET q == OrElse(c.title_query, <<>>)
        matches == _find_nodes_by_title(ast, q, Max(1, c.max_results) + 1,
                                        c.case_sensitive)
    IN  [disk |-> d,
         res |-> [ok |-> TRUE, action |-> "find_by_title", title_query |-> q,
                  matches |-> matches]]

FindByTitleBranch(d, ast, c) ==
    LET q == OrElse(c.title_query, <<>>)
        matches == _find_nodes_by_title(ast, q, Max(1, c.max_results),
                                        c.case_sensitive)
    IN  [disk |-> d,
         res |-> [ok |-> TRUE, action |-> "find_by_title", title_query |-> q,
                  matches |-> matches]]

\* append_child that appends the node and saves the tree before it checks
\* the position.
AppendChildBranchSavingFirst(d, ast, c) ==
    LET parent_path_n == _normalize_path_indices(c.parent_path)
        parent_ref == _traverse(ast, parent_path_n)
        children == _get_children_list(parent_ref.node)
        new_node == _make_node(c.section_title, c.content_summary[1])
        pos == c.position[1]
        appended == ReplaceNode(ast, parent_path_n,
                        [parent_ref.node EXCEPT
                            !.children = Append(children, new_node)])
        inserted == ReplaceNode(ast, parent_path_n,
                        [parent_ref.node EXCEPT
                            !.children = ListInsert(children, pos, new_node)])
    IN  IF IsNone(c.content_summary)
        THEN [disk |-> d, res |-> Required("content_summary", "append_child")]
        ELSE IF ~ parent_ref.ok
        THEN [disk |-> d, res |-> Failure(parent_ref.error)]
        ELSE IF ~ IsNone(c.position) /\ PositionOutOfRange(pos, children)
        THEN [disk |-> _atomic_write_text(_dump_json(appended)),
              res |-> Failure([kind |-> "position out of range", pos |-> pos,
                               lo |-> 0, hi |-> Len(children)])]
        ELSE [disk |-> _atomic_write_text(_dump_json(
                           IF IsNone(c.position) THEN appended ELSE inserted)),
              res |-> [ok |-> TRUE, action |-> "append_child",
                       parent_path |-> parent_path_n,
                       new_node_path |->
                           Append(parent_path_n,
                                  IF IsNone(c.position) THEN Len(children)
                                  ELSE pos)]]

\* append_child that saves the new node in place of the tree.
AppendChildBranchSavingNode(d, ast, c) ==
    LET parent_path_n == _normalize_path_indices(c.parent_path)
        parent_ref == _traverse(ast, parent_path_n)
        children == _get_children_list(parent_ref.node)
        new_node == _make_node(c.section_title, c.content_summary[1])
        pos == c.position[1]
        new_index == IF IsNone(c.position) THEN Len(children) ELSE pos
    IN  IF IsNone(c.content_summary)
        THEN [disk |-> d, res |-> Required("content_summary", "append_child")]
        ELSE IF ~ parent_ref.ok
        THEN [disk |-> d, res |-> Failure(parent_ref.error)]
        ELSE IF ~ IsNone(c.position) /\ PositionOutOfRange(pos, children)
        THEN [disk |-> d,
              res |-> Failure([kind |-> "position out of range", pos |-> pos,
                               lo |-> 0, hi |-> Len(children)])]
        ELSE [disk |-> _atomic_write_text(DumpNode(new_node)),
              res |-> [ok |-> TRUE, action |-> "append_child",
                       parent_path |-> parent_path_n,
                       new_node_path |-> Append(parent_path_n, new_index)]]

AppendChildBranch(d, ast, c) ==
    LET parent_path_n == _normalize_path_indices(c.parent_path)
        parent_ref == _traverse(ast, parent_path_n)
        children == _get_children_list(parent_ref.node)
        new_node == _make_node(c.section_title, c.content_summary[1])
        pos == c.position[1]
        new_children == IF IsNone(c.position) THEN Append(children, new_node)
                        ELSE ListInsert(children, pos, new_node)
        new_index == IF IsNone(c.position) THEN Len(new_children) - 1 ELSE pos
        new_ast == ReplaceNode(ast, parent_path_n,
                       [parent_ref.node EXCEPT !.children = new_children])
    IN  IF IsNone(c.content_summary)
        THEN [disk |-> d, res |-> Required("content_summary", "append_child")]
        ELSE IF ~ parent_ref.ok
        THEN [disk |-> d, res |-> Failure(parent_ref.error)]
        ELSE IF ~ IsNone(c.position) /\ PositionOutOfRange(pos, children)
        THEN [disk |-> d,
              res |-> Failure([kind |-> "position out of range", pos |-> pos,
                               lo |-> 0, hi |-> Len(children)])]
        ELSE [disk |-> _atomic_write_text(_dump_json(new_ast)),
              res |-> [ok |-> TRUE, action |-> "append_child",
                       parent_path |-> parent_path_n,
                       new_node_path |-> Append(parent_path_n, new_index)]]

UpsertChildByTitleBranch(d, ast, c) ==
    LET parent_path_n == _normalize_path_indices(c.parent_path)
        parent_ref == _traverse(ast, parent_path_n)
        children == _get_children_list(parent_ref.node)
        section_title == c.section_title[1]
        content_summary == c.content_summary[1]
        found == FoundIndex(children, section_title)
        child == children[found[1] + 1]
        joined == UpsertJoin(child.content_summary, content_summary)
        new_children ==
            IF IsNone(found)
            THEN Append(children, _make_node(c.section_title, content_summary))
            ELSE [children EXCEPT ![found[1] + 1].content_summary = joined]
        found_index == IF IsNone(found) THEN Len(new_children) - 1 ELSE found[1]
        new_ast == ReplaceNode(ast, parent_path_n,
                       [parent_ref.node EXCEPT !.children = new_children])
    IN  IF ~ Truthy(c.section_title)
        THEN [disk |-> d,
              res |-> Required("section_title", "upsert_child_by_title")]
        ELSE IF IsNone(c.content_summary)
        THEN [disk |-> d,
              res |-> Required("content_summary", "upsert_child_by_title")]
        ELSE IF ~ parent_ref.ok
        THEN [disk |-> d, res |-> Failure(parent_ref.error)]
        ELSE [disk |-> _atomic_write_text(_dump_json(new_ast)),
              res |-> [ok |-> TRUE, action |-> "upsert_child_by_title",
                       parent_path |-> parent_path_n,
                       node_path |-> Append(parent_path_n, found_index),
                       op |-> IF IsNone(found) THEN "created" ELSE "appended"]]

\* update_node that builds the node anew from the arguments.
UpdateNodeBranchRebuilding(d, ast, c) ==
    LET node_path_n == _normalize_path_indices(c.node_path)
        ref == _traverse(ast, node_path_n)
        new_ast == ReplaceNode(ast, node_path_n,
                       _make_node(c.section_title,
                                  OrElse(c.content_summary, <<>>)))
    IN  IF IsNone(c.section_title) /\ IsNone(c.content_summary)
        THEN [disk |-> d,
              res |-> Required("section_title and/or content_summary",
                               "update_node")]
        ELSE IF ~ ref.ok THEN [disk |-> d, res |-> Failure(ref.error)]
        ELSE [disk |-> _atomic_write_text(_dump_json(new_ast)),
              res |-> [ok |-> TRUE, action |-> "update_node",
                       node_path |-> node_path_n]]

UpdateNodeBranch(d, ast, c) ==
    LET node_path_n == _normalize_path_indices(c.node_path)
        ref == _traverse(ast, node_path_n)
        n1 == IF ~ IsNone(c.section_title)
              THEN [ref.node EXCEPT !.section_title = c.section_title]
              ELSE ref.node
        n2 == IF ~ IsNone(c.content_summary)
              THEN [n1 EXCEPT !.content_summary = c.content_summary[1]]
              ELSE n1
        new_ast == ReplaceNode(ast, node_path_n, n2)
    IN  IF IsNone(c.section_title) /\ IsNone(c.content_summary)
        THEN [disk |-> d,
              res |-> Required("section_title and/or content_summary",
                               "update_node")]
        ELSE IF ~ ref.ok THEN [disk |-> d, res |-> Failure(ref.error)]
        ELSE [disk |-> _atomic_write_text(_dump_json(new_ast)),
              res |-> [ok |-> TRUE, action |-> "update_node",
                       node_path |-> node_path_n]]

AppendToSummaryBranch(d, ast, c) ==
    LET node_path_n == _normalize_path_indices(c.node_path)
        ref == _traverse(ast, node_path_n)
        new_summary == AppendJoin(ref.node.content_summary, c.append_text[1])
        new_ast == ReplaceNode(ast, node_path_n,
                       [ref.node EXCEPT !.content_summary = new_summary])
    IN  IF IsNone(c.append_text)
        THEN [disk |-> d, res |-> Required("append_text", "append_to_summary")]
        ELSE IF ~ ref.ok THEN [disk |-> d, res |-> Failure(ref.error)]
        ELSE [disk |-> _atomic_write_text(_dump_json(new_ast)),
              res |-> [ok |-> TRUE, action |-> "append_to_summary",
                       node_path |-> node_path_n]]

\* The existence check passing whether or not there is a file.
FileExistsAlways(d) == TRUE

\* os.path.exists(ast_path)
FileExists(d) == d.exists

\* ast_store(**c) run against the file d: the file it leaves and the response
\* it returns. An exception inside (json.load of a damaged file, IndexError
\* of _traverse) becomes {"ok": false, "error": str(e)}.
ast_store(d, c) ==
    IF c.action = "init" THEN InitBranch(d, c)
    ELSE IF ~ FileExists(d)
    THEN [disk |-> d, res |-> Failure([kind |-> "AST file not found",
                                       hint |-> "Call action=init first"])]
    ELSE LET loaded == _load_json(d.text)
             ast == loaded.ast
         IN  IF ~ loaded.ok
             THEN [disk |-> d, res |-> Failure([kind |-> "JSONDecodeError"])]
             ELSE CASE c.action = "load" -> LoadBranch(d, ast)
                    [] c.action = "load_subtree" -> LoadSubtreeBranch(d, ast, c)
                    [] c.action = "find_by_title" -> FindByTitleBranch(d, ast, c)
                    [] c.action = "append_child" -> AppendChildBranch(d, ast, c)
                    [] c.action = "upsert_child_by_title" ->
                           UpsertChildByTitleBranch(d, ast, c)
                    [] c.action = "update_node" -> UpdateNodeBranch(d, ast, c)
                    [] c.action = "append_to_summary" ->
                           AppendToSummaryBranch(d, ast, c)
                    [] OTHER ->
                           [disk |-> d,
                            res |-> Failure([kind |-> "Unknown action",
                                             action |-> c.action])]

----------------------------------------------------------------------------
(* Bounds *)

\* Spec: the most nodes (the root included) a tree is grown to, and the
\* longest content_summary.
MaxNodes == 3

MaxSumLen == 1

\* SpecTitles: the most nodes a tree is grown to.
MaxTitleNodes == 4

\* SpecJoin: the most nodes a tree is grown to, and the longest
\* content_summary.
MaxJoinNodes == 3

MaxJoinLen == 5

MaxPathNodes == 4

\* The number of units of text one write() of a buffered file takes.
BufferLen == 8

Bound(nodes, sumlen) == [nodes |-> nodes, sumlen |-> sumlen]

RECURSIVE NodeCount(_)
RECURSIVE NodeCountList(_)
NodeCount(node) == 1 + NodeCountList(node.children)

NodeCountList(children) ==
    IF children = <<>> THEN 0
    ELSE NodeCount(Head(children)) + NodeCountList(Tail(children))

RECURSIVE MaxSummary(_)
RECURSIVE MaxSummaryList(_)
MaxSummary(node) == Max(Len(node.content_summary), MaxSummaryList(node.children))

MaxSummaryList(children) ==
    IF children = <<>> THEN 0
    ELSE Max(MaxSummary(Head(children)), MaxSummaryList(Tail(children)))

\* The AST in file d (a file the program wrote).
AstOf(d) == _load_json(d.text).ast

WithinBounds(d, b) ==
    d.exists /\ _load_json(d.text).ok =>
        LET root == AstOf(d).root
        IN  NodeCount(root) <= b.nodes /\ MaxSummary(root) <= b.sumlen

----------------------------------------------------------------------------
(* Inputs *)

\* The paths of the nodes below and including node, itself at path.
RECURSIVE PathsFrom(_, _)
PathsFrom(node, path) ==
    {path} \cup UNION {PathsFrom(node.children[i + 1], Append(path, i)) :
                         i \in 0..(Len(node.children) - 1)}

\* The paths that resolve in file d (the root's alone when there is no file).
ValidPaths(d) == IF d.exists THEN PathsFrom(AstOf(d).root, <<>>) ELSE {<<>>}

\* The node at a path that resolves, by plain indexing.
RECURSIVE Descend(_, _)
Descend(node, path) ==
    IF path = <<>> THEN node
    ELSE Descend(node.children[Head(path) + 1], Tail(path))

\* len(children) of the node at valid path q.
ChildCount(d, q) ==
    IF d.exists THEN Len(Descend(AstOf(d).root, q).children) ELSE 0

\* The paths that leave the tree at their last index, one below and one
\* above the valid indices of each node.
EdgePaths(d) ==
    UNION {{Append(q, -1), Append(q, ChildCount(d, q))} : q \in ValidPaths(d)}

\* node_path arguments of load_subtree: omitted, resolving, leaving the tree
\* at the last index, and leaving it at an index before the last.
ProbePathArgs(d) ==
    {None} \cup {Some(q) : q \in ValidPaths(d) \cup EdgePaths(d)}
           \cup {Some(<<ChildCount(d, <<>>), 0>>), Some(<<-1, 0>>)}

\* A path that does not resolve: the first index past the root's children.
BadPath(d) == Some(<<ChildCount(d, <<>>)>>)

\* (file_name, root_title, root_summary) of init.
InitArgs ==
    {<<None, None, None>>, <<Some(<<>>), Some(<<"A">>), Some(<<"x">>)>>,
     <<Some(<<"f">>), Some(<<>>), Some(<<>>)>>}
    \cup {<<Some(<<"f">>), t, s>> : t \in {None, Some(<<"A">>)},
                                  s \in {None, Some(<<"x">>)}}

\* (title_query, max_results, case_sensitive) of find_by_title.
FindArgs ==
    {<<q, DefaultMaxResults, cs>> : q \in {None, Some(<<"a">>)}, cs \in BOOLEAN}
    \cup {<<Some(<<"a">>), 1, FALSE>>}

\* position arguments under the parent at valid path q: omitted, every
\* insertion point, and one below and one above them.
PositionArgs(d, q) == {None} \cup {Some(i) : i \in -1..(ChildCount(d, q) + 1)}

\* (parent_path, section_title, content_summary, position) of append_child.
AppendChildArgs(d) ==
    UNION {{<<Some(q), a[1], a[2], i>> :
              a \in {<<None, Some(<<>>)>>, <<Some(<<"A">>), Some(<<"x">>)>>},
              i \in PositionArgs(d, q)} : q \in ValidPaths(d)}
    \cup {<<None, None, Some(<<"x">>), None>>,
          <<BadPath(d), Some(<<"A">>), Some(<<"x">>), Some(0)>>,
          <<Some(<<>>), Some(<<"A">>), None, Some(0)>>}

\* (parent_path, section_title, content_summary) of upsert_child_by_title.
UpsertArgs(d) ==
    {<<Some(q), Some(<<"A">>), Some(<<"x">>)>> : q \in ValidPaths(d)}
    \cup {<<None, Some(<<"A">>), Some(<<"x">>)>>,
          <<BadPath(d), Some(<<"A">>), Some(<<"x">>)>>,
          <<Some(<<>>), None, Some(<<"x">>)>>,
          <<Some(<<>>), Some(<<>>), Some(<<"x">>)>>,
          <<Some(<<>>), Some(<<"A">>), None>>}

\* (node_path, section_title, content_summary) of update_node.
UpdateArgs(d) ==
    {<<Some(q), a[1], a[2]>> :
        q \in ValidPaths(d),
        a \in {<<Some(<<"A">>), None>>, <<None, Some(<<>>)>>,
               <<None, Some(<<"x">>)>>, <<Some(<<"A">>), Some(<<"x">>)>>}}
    \cup {<<None, Some(<<"A">>), None>>,
          <<BadPath(d), Some(<<"A">>), None>>,
          <<Some(<<>>), None, None>>}

\* (node_path, append_text) of append_to_summary.
AppendToSummaryArgs(d) ==
    {<<Some(q), Some(<<"x">>)>> : q \in ValidPaths(d)}
    \cup {<<None, Some(<<"x">>)>>, <<BadPath(d), Some(<<"x">>)>>,
          <<Some(<<>>), None>>}

\* SpecTitles: titles of which one contains the other, and queries that
\* differ from them in case.
TitleArgs == {None, Some(<<>>), Some(<<"A">>), Some(<<"A", "b">>)}

QueryArgs == {Some(<<>>), Some(<<"a">>), Some(<<"b">>), Some(<<"A", "b">>)}

\* (title_query, max_results, case_sensitive) of find_by_title in SpecTitles.
TitleFindArgs ==
    {<<q, k, cs>> : q \in QueryArgs, k \in {1, 2, DefaultMaxResults},
                    cs \in BOOLEAN}
    \cup {<<None, 1, FALSE>>, <<Some(<<"a">>), 0, FALSE>>,
          <<Some(<<"a">>), -1, FALSE>>}

\* SpecJoin: summaries with white space at the start and at the end.
JoinTextArgs == {Some(<<>>), Some(<<" ", "x", " ">>)}

----------------------------------------------------------------------------
(* The state machine: one caller, one call at a time *)

NoCall == [action |-> "none"]

NoRes == [action |-> "none"]

NoUpsert == [call |-> NoCall, res |-> NoRes, pre |-> NoFile]

\* No directory entry and no file.
NoFs == [path |-> 0, tmp |-> 0, data |-> <<>>]

Init ==
    /\ disk = NoFile
    /\ pre = NoFile
    /\ call = NoCall
    /\ res = NoRes
    /\ lastUpsert = NoUpsert
    /\ fs = NoFs
    /\ proc = <<>>
    /\ start = NoFile

\* The caller invokes ast_store(**c) and the call runs to its return; b
\* bounds the tree the call may leave.
Invoke(c, b) ==
    /\ call = NoCall
    /\ LET out == ast_store(disk, c)
       IN  /\ WithinBounds(out.disk, b)
           /\ disk' = out.disk
           /\ res' = out.res
    /\ call' = c
    /\ pre' = disk
    /\ UNCHANGED <<lastUpsert, fs, proc, start>>

DoInit(b, file_name, root_title, root_summary) ==
    Invoke([DefaultArgs EXCEPT !.action = "init", !.file_name = file_name,
                               !.root_title = root_title,
                               !.root_summary = root_summary], b)

DoLoad(b) == Invoke([DefaultArgs EXCEPT !.action = "load"], b)

DoLoadSubtree(b, node_path) ==
    Invoke([DefaultArgs EXCEPT !.action = "load_subtree",
                               !.node_path = node_path], b)

DoFindByTitle(b, title_query, max_results, case_sensitive) ==
    Invoke([DefaultArgs EXCEPT !.action = "find_by_title",
                               !.title_query = title_query,
                               !.max_results = max_results,
                               !.case_sensitive = case_sensitive], b)

DoAppendChild(b, parent_path, section_title, content_summary, position) ==
    Invoke([DefaultArgs EXCEPT !.action = "append_child",
                               !.parent_path = parent_path,
                               !.section_title = section_title,
                               !.content_summary = content_summary,
                               !.position = position], b)

DoUpsertChildByTitle(b, parent_path, section_title, content_summary) ==
    Invoke([DefaultArgs EXCEPT !.action = "upsert_child_by_title",
                               !.parent_path = parent_path,
                               !.section_title = section_title,
                               !.content_summary = content_summary], b)

DoUpdateNode(b, node_path, section_title, content_summary) ==
    Invoke([DefaultArgs EXCEPT !.action = "update_node",
                               !.node_path = node_path,
                               !.section_title = section_title,
                               !.content_summary = content_summary], b)

DoAppendToSummary(b, node_path, append_text) ==
    Invoke([DefaultArgs EXCEPT !.action = "append_to_summary",
                               !.node_path = node_path,
                               !.append_text = append_text], b)

\* A call with an action name outside the eight the function knows.
DoUnknown(b) == Invoke([DefaultArgs EXCEPT !.action = "delete_node"], b)

\* The caller takes the response; the next call is consecutive to this one.
\* lastUpsert is a history variable, kept (keep) by the specification whose
\* claims read it.
Receive(keep) ==
    /\ call # NoCall
    /\ lastUpsert' = IF keep /\ call.action = "upsert_child_by_title" /\ res.ok
                     THEN [call |-> call, res |-> res, pre |-> pre]
                     ELSE NoUpsert
    /\ call' = NoCall
    /\ res' = NoRes
    /\ pre' = disk
    /\ UNCHANGED <<disk, fs, proc, start>>

\* Every action, over a small universe of titles and summaries.
Next ==
    LET b == Bound(MaxNodes, MaxSumLen)
    IN  \/ \E a \in InitArgs : DoInit(b, a[1], a[2], a[3])
        \/ DoLoad(b)
        \/ \E p \in ProbePathArgs(disk) : DoLoadSubtree(b, p)
        \/ \E a \in FindArgs : DoFindByTitle(b, a[1], a[2], a[3])
        \/ \E a \in AppendChildArgs(disk) :
               DoAppendChild(b, a[1], a[2], a[3], a[4])
        \/ \E a \in UpsertArgs(disk) :
               DoUpsertChildByTitle(b, a[1], a[2], a[3])
        \/ \E a \in UpdateArgs(disk) : DoUpdateNode(b, a[1], a[2], a[3])
        \/ \E a \in AppendToSummaryArgs(disk) :
               DoAppendToSummary(b, a[1], a[2])
        \/ DoUnknown(b)
        \/ Receive(FALSE)

Spec == Init /\ [][Next]_vars

\* Growing a tree of titled nodes, upserting and searching by title.
NextTitles ==
    LET b == Bound(MaxTitleNodes, MaxSumLen)
    IN  \/ \E t \in {None, Some(<<"A", "b">>)} :
               DoInit(b, Some(<<"f">>), t, None)
        \/ \E q \in ValidPaths(disk), t \in {Some(<<"A">>), Some(<<"A", "b">>)} :
               DoAppendChild(b, Some(q), t, Some(<<>>), None)
        \/ \E q \in ValidPaths(disk), t \in TitleArgs :
               DoUpsertChildByTitle(b, Some(q), t, Some(<<>>))
        \/ \E a \in TitleFindArgs : DoFindByTitle(b, a[1], a[2], a[3])
        \/ Receive(FALSE)

SpecTitles == Init /\ [][NextTitles]_vars

\* Growing summaries by upsert and append_to_summary under equal titles.
NextJoin ==
    LET b == Bound(MaxJoinNodes, MaxJoinLen)
    IN  \/ DoInit(b, Some(<<"f">>), None, None)
        \/ \E q \in ValidPaths(disk) :
               DoAppendChild(b, Some(q), Some(<<"A">>), Some(<<>>), None)
        \/ \E q \in ValidPaths(disk), s \in JoinTextArgs :
               DoUpsertChildByTitle(b, Some(q), Some(<<"A">>), s)
        \/ \E q \in ValidPaths(disk) \ {<<>>}, s \in JoinTextArgs :
               DoAppendToSummary(b, Some(q), s)
        \/ Receive(TRUE)

SpecJoin == Init /\ [][NextJoin]_vars

\* Growing a tree of nodes titled alike or not by appends and inserts at
\* every position, and changing nodes in place.
NextPaths ==
    LET b == Bound(MaxPathNodes, MaxSumLen)
    IN  \/ DoInit(b, Some(<<"f">>), None, None)
        \/ \E q \in ValidPaths(disk), t \in {Some(<<"A">>), Some(<<"B">>)} :
               \E i \in PositionArgs(disk, q) :
                   DoAppendChild(b, Some(q), t, Some(<<>>), i)
        \/ \E q \in ValidPaths(disk), t \in {Some(<<"A">>), Some(<<"B">>)} :
               DoUpsertChildByTitle(b, Some(q), t, Some(<<>>))
        \/ \E q \in ValidPaths(disk) :
               DoUpdateNode(b, Some(q), Some(<<"B">>), None)
        \/ \E q \in ValidPaths(disk) :
               DoAppendToSummary(b, Some(q), Some(<<>>))
        \/ Receive(FALSE)

SpecPaths == Init /\ [][NextPaths]_vars

----------------------------------------------------------------------------
(* Concurrent calls: ast_store step by step on a shared directory *)

\* The text json.dumps returns, unit by unit as f.write hands it to the
\* file: braces and brackets, null, and the strings <<"s", string>>.
RECURSIVE Chars(_)
RECURSIVE CharsOfList(_)
Chars(json) ==
    <<(<<"{">>),
      IF json[2] = <<"null">> THEN <<"null">> ELSE <<"s", json[2][2]>>,
      <<"s", json[3][2]>>,
      <<"[">>>> \o CharsOfList(json[4][2]) \o <<(<<"]">>), (<<"}">>)>>

CharsOfList(items) ==
    IF items = <<>> THEN <<>>
    ELSE Chars(Head(items)) \o CharsOfList(Tail(items))

CharsOfText(text) ==
    <<(<<"{">>), <<"s", text[2][2]>>>> \o Chars(text[3]) \o <<(<<"}">>)>>

\* A unit of a file that nothing wrote: what a write beyond the end of a
\* file leaves between the old end and the offset written at.
Hole == <<"0">>

IsStringUnit(u) == Len(u) = 2 /\ u[1] = "s"

\* json.load on the units of a file: ParseNode reads one node object from
\* the front of units and returns it with the units after it; ParseItems
\* reads the node objects of an array up to and with its closing bracket.
\* Anything else is a JSONDecodeError.
RECURSIVE ParseNode(_)
RECURSIVE ParseItems(_)
ParseNode(units) ==
    IF \/ Len(units) < 6
       \/ units[1] # <<"{">>
       \/ ~ (units[2] = <<"null">> \/ IsStringUnit(units[2]))
       \/ ~ IsStringUnit(units[3])
       \/ units[4] # <<"[">>
    THEN [ok |-> FALSE]
    ELSE LET items == ParseItems(SubSeq(units, 5, Len(units)))
         IN  IF ~ items.ok THEN [ok |-> FALSE]
             ELSE IF items.rest = <<>> \/ Head(items.rest) # <<"}">>
             THEN [ok |-> FALSE]
             ELSE [ok |-> TRUE,
                   val |-> <<"object",
                             IF units[2] = <<"null">> THEN <<"null">>
                             ELSE <<"string", units[2][2]>>,
                             <<"string", units[3][2]>>,
                             <<"array", items.val>>>>,
                   rest |-> Tail(items.rest)]

ParseItems(units) ==
    IF units = <<>> THEN [ok |-> FALSE]
    ELSE IF Head(units) = <<"]">>
    THEN [ok |-> TRUE, val |-> <<>>, rest |-> Tail(units)]
    ELSE LET node == ParseNode(units)
             more == ParseItems(node.rest)
         IN  IF ~ node.ok THEN [ok |-> FALSE]
             ELSE IF ~ more.ok THEN [ok |-> FALSE]
             ELSE [ok |-> TRUE, val |-> <<node.val>> \o more.val,
                   rest |-> more.rest]

\* json.load on the units of a whole file: the document, if the units are
\* those of one document and nothing else.
ParseText(units) ==
    IF \/ Len(units) < 3
       \/ units[1] # <<"{">>
       \/ ~ IsStringUnit(units[2])
    THEN [ok |-> FALSE]
    ELSE LET root == ParseNode(SubSeq(units, 3, Len(units)))
         IN  IF ~ root.ok THEN [ok |-> FALSE]
             ELSE IF root.rest # <<(<<"}">>)>> THEN [ok |-> FALSE]
             ELSE [ok |-> TRUE,
                   text |-> <<"object", <<"string", units[2][2]>>, root.val>>]

\* The units of a file after write() of chunk at offset off.
WriteAt(data, off, chunk) ==
    LET end == Max(Len(data), off + Len(chunk))
        unit(i) == IF i > off /\ i <= off + Len(chunk) THEN chunk[i - off]
                   ELSE IF i <= Len(data) THEN data[i]
                   ELSE Hole
    IN  SubSeq([i \in 1..end |-> unit(i)], 1, end)

\* The directory in which ast_path names a file holding the text of file d,
\* or nothing if d does not exist.
FsOf(d) ==
    IF d.exists
    THEN [path |-> 1, tmp |-> 0, data |-> <<CharsOfText(d.text)>>]
    ELSE NoFs

\* What ast_path names in directory f, as a file: what a call that runs
\* alone from here on finds.
FileOf(f) ==
    IF f.path = 0 THEN [exists |-> FALSE, parses |-> TRUE, text |-> <<>>]
    ELSE LET parsed == ParseText(f.data[f.path])
         IN  IF parsed.ok
             THEN [exists |-> TRUE, parses |-> TRUE, text |-> parsed.text]
             ELSE [exists |-> TRUE, parses |-> FALSE, text |-> <<>>]

\* An open for writing of ast_path itself: the file it names is emptied, or
\* made if there is none.
OpenForWriteInPlace(f) ==
    IF f.path = 0
    THEN [fs |-> [f EXCEPT !.path = Len(f.data) + 1,
                           !.data = Append(f.data, <<>>)],
          ino |-> Len(f.data) + 1]
    ELSE [fs |-> [f EXCEPT !.data[f.path] = <<>>], ino |-> f.path]

\* open(tmp_path, "w") in directory f: the file ast_path.tmp names is
\* emptied, or made if there is none; ino is the file opened.
OpenForWrite(f) ==
    IF f.tmp = 0
    THEN [fs |-> [f EXCEPT !.tmp = Len(f.data) + 1,
                           !.data = Append(f.data, <<>>)],
          ino |-> Len(f.data) + 1]
    ELSE [fs |-> [f EXCEPT !.data[f.tmp] = <<>>], ino |-> f.tmp]

\* A process at the start of ast_store(**c).
Starting(c) ==
    [pc |-> "start", call |-> c, text |-> <<>>, ino |-> 0, off |-> 0,
     res |-> NoRes]

Returned(q, response) == [q EXCEPT !.pc = "done", !.res = response]

\* What a call does once it holds the file d it works on: it returns, or it
\* goes on to write the text it computed, with the response it will return
\* once the text is in place.
Computed(q, d) ==
    LET out == ast_store(d, q.call)
    IN  IF out.res.ok /\ out.disk.exists /\ q.call.action \notin
               {"load", "load_subtree", "find_by_title"}
        THEN [q EXCEPT !.pc = "open", !.text = CharsOfText(out.disk.text),
                       !.res = out.res]
        ELSE Returned(q, out.res)

\* init needs no file and goes on to write; any other action checks
\* os.path.exists(ast_path) and returns if there is no file.
Begin(p) ==
    /\ proc[p].pc = "start"
    /\ proc' = [proc EXCEPT ![p] =
                   IF @.call.action = "init" \/ fs.path = 0
                   THEN Computed(@, NoFile)
                   ELSE [@ EXCEPT !.pc = "load"]]
    /\ UNCHANGED <<disk, pre, call, res, lastUpsert, fs, start>>

\* _load_json(ast_path), then the branch of the action on the loaded tree,
\* in memory.
Load(p) ==
    /\ proc[p].pc = "load"
    /\ LET parsed == ParseText(fs.data[fs.path])
       IN  proc' = [proc EXCEPT ![p] =
                       IF parsed.ok
                       THEN Computed(@, [exists |-> TRUE, text |-> parsed.text])
                       ELSE Returned(@, Failure([kind |-> "JSONDecodeError"]))]
    /\ UNCHANGED <<disk, pre, call, res, lastUpsert, fs, start>>

\* _atomic_write_text: open(tmp_path, "w").
OpenTmp(p) ==
    /\ proc[p].pc = "open"
    /\ LET opened == OpenForWrite(fs)
       IN  /\ fs' = opened.fs
           /\ proc' = [proc EXCEPT ![p].pc = "write", ![p].ino = opened.ino,
                                   ![p].off = 0]
    /\ UNCHANGED <<disk, pre, call, res, lastUpsert, start>>

\* _atomic_write_text: f.write(text), which reaches the file one buffer at a
\* time at the offset of the process's own handle, the last at close.
Write(p) ==
    /\ proc[p].pc = "write"
    /\ LET q == proc[p]
           end == IF q.off + BufferLen < Len(q.text) THEN q.off + BufferLen
                  ELSE Len(q.text)
           chunk == SubSeq(q.text, q.off + 1, end)
       IN  /\ fs' = [fs EXCEPT !.data[q.ino] = WriteAt(@, q.off, chunk)]
           /\ proc' = [proc EXCEPT
                          ![p].off = end,
                          ![p].pc = IF end = Len(q.text) THEN "replace"
                                    ELSE "write"]
    /\ UNCHANGED <<disk, pre, call, res, lastUpsert, start>>

\* _atomic_write_text: os.replace(tmp_path, path), which moves whatever file
\* ast_path.tmp names now, and raises FileNotFoundError if it names none;
\* the except clause of ast_store turns that into a response.
Replace(p) ==
    /\ proc[p].pc = "replace"
    /\ IF fs.tmp = 0
       THEN /\ proc' = [proc EXCEPT ![p] =
                           Returned(@, Failure([kind |-> "FileNotFoundError"]))]
            /\ UNCHANGED fs
       ELSE /\ fs' = [fs EXCEPT !.path = fs.tmp, !.tmp = 0]
            /\ proc' = [proc EXCEPT ![p].pc = "done"]
    /\ UNCHANGED <<disk, pre, call, res, lastUpsert, start>>

\* The files the calls start on: none, a fresh tree, a tree with a child.
StartFiles ==
    LET fresh == ast_store(NoFile, [DefaultArgs EXCEPT
                     !.action = "init", !.file_name = Some(<<"f">>)]).disk
        grown == ast_store(fresh, [DefaultArgs EXCEPT
                     !.action = "append_child", !.section_title = Some(<<"A">>),
                     !.content_summary = Some(<<"x">>)]).disk
    IN  {NoFile, fresh, grown}

\* The calls of a writer: init and the four mutating actions, at the root.
WriterCalls ==
    {[DefaultArgs EXCEPT !.action = "init", !.file_name = Some(<<"g">>)],
     [DefaultArgs EXCEPT !.action = "append_child",
                         !.section_title = Some(<<"B">>),
                         !.content_summary = Some(<<>>)],
     [DefaultArgs EXCEPT !.action = "upsert_child_by_title",
                         !.section_title = Some(<<"A">>),
                         !.content_summary = Some(<<"y">>)],
     [DefaultArgs EXCEPT !.action = "update_node",
                         !.section_title = Some(<<"C">>)],
     [DefaultArgs EXCEPT !.action = "append_to_summary",
                         !.append_text = Some(<<"z">>)]}

\* The calls of a reader: the three load-type actions.
ReaderCalls ==
    {[DefaultArgs EXCEPT !.action = "load"],
     [DefaultArgs EXCEPT !.action = "load_subtree", !.node_path = Some(<<0>>)],
     [DefaultArgs EXCEPT !.action = "find_by_title",
                         !.title_query = Some(<<"a">>)]}

\* Processes enter ast_store with the calls of starting, on one of the
\* files a caller calling alone can have left.
InitCalls(starting) ==
    /\ disk = NoFile
    /\ pre = NoFile
    /\ call = NoCall
    /\ res = NoRes
    /\ lastUpsert = NoUpsert
    /\ start \in StartFiles
    /\ fs = FsOf(start)
    /\ proc \in starting

NextCalls ==
    \/ \E p \in DOMAIN proc : Begin(p)
    \/ \E p \in DOMAIN proc : Load(p)
    \/ \E p \in DOMAIN proc : OpenTmp(p)
    \/ \E p \in DOMAIN proc : Write(p)
    \/ \E p \in DOMAIN proc : Replace(p)

\* One process writes while another reads.
SpecReader ==
    /\ InitCalls({<<Starting(w), Starting(r)>> :
                      w \in WriterCalls, r \in ReaderCalls})
    /\ [][NextCalls]_vars

\* Two processes write.
SpecWriters ==
    /\ InitCalls({<<Starting(w1), Starting(w2)>> :
                      w1 \in WriterCalls, w2 \in WriterCalls})
    /\ [][NextCalls]_vars

----------------------------------------------------------------------------
(* What the claims read *)

\* The children of the node at path q in file d.
KidsAt(d, q) == Descend(AstOf(d).root, q).children

\* Some child in the list is titled exactly title (an Optional[str]).
HasChildTitled(kids, title) ==
    \E i \in 1..Len(kids) : kids[i].section_title = title

ParentPath == _normalize_path_indices(call.parent_path)

NodePath == _normalize_path_indices(call.node_path)

----------------------------------------------------------------------------
(* C1 *)

\* The outstanding call is a successful upsert that directly follows a
\* successful upsert of the same title under the same parent, and before the
\* first of the two the parent had no child of that title.
C1_Case ==
    /\ lastUpsert.call.action = "upsert_child_by_title"
    /\ call.action = "upsert_child_by_title"
    /\ res.ok
    /\ ParentPath = _normalize_path_indices(lastUpsert.call.parent_path)
    /\ call.section_title = lastUpsert.call.section_title
    /\ ~ HasChildTitled(KidsAt(lastUpsert.pre, ParentPath), call.section_title)

\* C1: of two consecutive successful upsert_child_by_title calls with the
\* same title under the same parent, where no child had that title before,
\* the first returns op=created and the second op=appended, both return the
\* same node_path, the parent has as many children after the second as after
\* the first, and the child's summary is then rstrip(first) + "\n" +
\* lstrip(second), or exactly second when first was empty.
C1_UpsertTwice ==
    C1_Case =>
        LET first == lastUpsert.call.content_summary[1]
            second == call.content_summary[1]
        IN  /\ lastUpsert.res.op = "created"
            /\ res.op = "appended"
            /\ res.node_path = lastUpsert.res.node_path
            /\ Len(KidsAt(disk, ParentPath)) = Len(KidsAt(pre, ParentPath))
            /\ Descend(AstOf(disk).root, res.node_path).content_summary =
                   IF first = <<>> THEN second
                   ELSE rstrip(first) \o <<"\n">> \o lstrip(second)

\* Both summaries carry white space on the sides that are trimmed.
C1_Witness ==
    /\ C1_Case
    /\ res.op = "appended"
    /\ lastUpsert.call.content_summary = Some(<<" ", "x", " ">>)
    /\ call.content_summary = Some(<<" ", "x", " ">>)

----------------------------------------------------------------------------
(* C2 *)

\* The outstanding call is a successful upsert_child_by_title (so its parent
\* path resolved and its title is not empty).
C2_Case == call.action = "upsert_child_by_title" /\ res.ok

\* C2: upsert_child_by_title returns op=created, with one new child appended
\* at the end of the parent's children, exactly when no child of the parent
\* has a title equal to the given one as a whole string; when one has, it
\* returns op=appended and adds no child.
C2_UpsertExactMatch ==
    C2_Case =>
        LET before == KidsAt(pre, ParentPath)
            after == KidsAt(disk, ParentPath)
            exact == HasChildTitled(before, call.section_title)
        IN  /\ (res.op = "created") <=> ~ exact
            /\ res.op = "created" =>
                   after = Append(before,
                                  [section_title |-> call.section_title,
                                   content_summary |-> call.content_summary[1],
                                   children |-> <<>>])
            /\ exact => res.op = "appended" /\ Len(after) = Len(before)

\* A child's title contains the given title without being equal to it, and
\* the call creates a new child.
C2_Witness ==
    /\ C2_Case
    /\ call.section_title = Some(<<"A">>)
    /\ HasChildTitled(KidsAt(pre, ParentPath), Some(<<"A", "b">>))
    /\ res.op = "created"

----------------------------------------------------------------------------
(* C3 *)

\* The response of ast_store(action, node_path=path) run on file d.
ResponseAt(d, action, path) ==
    ast_store(d, [DefaultArgs EXCEPT !.action = action,
                                     !.node_path = Some(path)]).res

\* The node append_child and upsert_child_by_title build from the call.
GivenNode ==
    [section_title |-> call.section_title,
     content_summary |-> call.content_summary[1],
     children |-> <<>>]

C3_Case == call.action = "append_child" /\ res.ok

\* C3: a successful append_child returns new_node_path = parent_path +
\* [index], index being the given position or, with none given, the number
\* of children the parent had, and load_subtree(new_node_path) right after it
\* returns the node just inserted: the given title, the given summary, no
\* children.
C3_AppendThenLoad ==
    C3_Case =>
        LET index == IF IsNone(call.position)
                     THEN Len(KidsAt(pre, ParentPath))
                     ELSE call.position[1]
            loaded == ResponseAt(disk, "load_subtree", res.new_node_path)
        IN  /\ res.new_node_path = Append(ParentPath, index)
            /\ loaded.ok
            /\ loaded.node_path = res.new_node_path
            /\ loaded.node = GivenNode

\* The node is inserted before an existing child of another content.
C3_Witness ==
    /\ C3_Case
    /\ call.position = Some(0)
    /\ Len(KidsAt(pre, ParentPath)) >= 1
    /\ KidsAt(pre, ParentPath)[1] # GivenNode

----------------------------------------------------------------------------
(* C4 *)

\* The outstanding call is an append_child with a summary, a parent path
\* that resolves and an explicit position.
C4_Case ==
    /\ call.action = "append_child"
    /\ pre.exists
    /\ ~ IsNone(call.content_summary)
    /\ ParentPath \in ValidPaths(pre)
    /\ ~ IsNone(call.position)

\* C4: under a parent with n children append_child succeeds for every explicit
\* position 0 <= p <= n and puts the new node at index p; for p < 0 and for
\* p >= n + 1 it fails with the range error naming 0..n, and the file and the
\* parent's number of children stay as they were.
C4_PositionRange ==
    C4_Case =>
        LET before == KidsAt(pre, ParentPath)
            n == Len(before)
            p == call.position[1]
        IN  /\ (0 <= p /\ p <= n) =>
                   /\ res.ok
                   /\ res.new_node_path = Append(ParentPath, p)
                   /\ Len(KidsAt(disk, ParentPath)) = n + 1
                   /\ KidsAt(disk, ParentPath)[p + 1] = GivenNode
            /\ (p < 0 \/ p >= n + 1) =>
                   /\ ~ res.ok
                   /\ res.error = [kind |-> "position out of range",
                                   pos |-> p, lo |-> 0, hi |-> n]
                   /\ disk = pre
                   /\ Len(KidsAt(disk, ParentPath)) = n

\* The position equals the number of children of a parent that has some.
C4_Witness ==
    /\ C4_Case
    /\ call.position = Some(Len(KidsAt(pre, ParentPath)))
    /\ Len(KidsAt(pre, ParentPath)) >= 1
    /\ res.ok

----------------------------------------------------------------------------
(* C5 *)

\* The outstanding call resolved its node_path on a tree: load_subtree is
\* _traverse and nothing else.
C5_Case == call.action = "load_subtree" /\ pre.exists

\* The hops of path that leave the tree: k is one when the first k indices
\* are not the path of a node.
BadHops(d, path) ==
    {k \in 1..Len(path) : SubSeq(path, 1, k) \notin ValidPaths(d)}

\* C5: a path resolves exactly when each of its indices i has
\* 0 <= i < len(children) at the node reached so far, and then to the node
\* plain indexing reaches; the empty path resolves to the root; otherwise the
\* error reports the first index out of bounds and the number of children of
\* the node it was applied to.
C5_PathResolution ==
    C5_Case =>
        LET bad == BadHops(pre, NodePath)
            k == CHOOSE i \in bad : \A j \in bad : i <= j
            reached == SubSeq(NodePath, 1, k - 1)
        IN  /\ res.ok <=> bad = {}
            /\ NodePath = <<>> => res.ok /\ res.node = AstOf(pre).root
            /\ res.ok => res.node = Descend(AstOf(pre).root, NodePath)
            /\ ~ res.ok =>
                   /\ res.error = [kind |-> "IndexError", idx |-> NodePath[k],
                                   len |-> Len(KidsAt(pre, reached))]
                   /\ (NodePath[k] < 0 \/ NodePath[k] >= Len(KidsAt(pre, reached)))

\* A negative first index under a root that has children, with a further
\* index after it: Python indexing would wrap around to the last child.
C5_Witness ==
    /\ C5_Case
    /\ NodePath = <<-1, 0>>
    /\ Len(KidsAt(pre, <<>>)) >= 1
    /\ ~ res.ok
    /\ res.error.idx = -1

----------------------------------------------------------------------------
(* C6 *)

NotFound ==
    Failure([kind |-> "AST file not found", hint |-> "Call action=init first"])

OtherThanInit ==
    {"load", "load_subtree", "find_by_title", "append_child",
     "upsert_child_by_title", "update_node", "append_to_summary"}

\* The outstanding call was made when there was no file.
C6_Case == call # NoCall /\ ~ pre.exists

\* C6: with no file, each of the seven operations other than init fails with
\* the not-found error that says to call init first and leaves no file; a
\* file comes to exist only by an init that succeeded.
C6_Uninitialized ==
    C6_Case =>
        /\ call.action \in OtherThanInit => res = NotFound /\ disk = pre
        /\ disk.exists => call.action = "init" /\ res.ok

\* An append_child with every argument it requires, made with no file.
C6_Witness ==
    /\ C6_Case
    /\ call.action = "append_child"
    /\ ~ IsNone(call.content_summary)
    /\ ParentPath = <<>>
    /\ res = NotFound
    /\ ~ disk.exists

----------------------------------------------------------------------------
(* C7 *)

\* The outstanding call is an init that names the document.
C7_Case == call.action = "init" /\ Truthy(call.file_name)

\* C7: init with a file_name succeeds whether or not there was a file; the
\* file then holds a root without children, the same file the same init
\* leaves when there was none before, and the same init once more leaves the
\* file as it is.
C7_InitResets ==
    C7_Case =>
        /\ res.ok
        /\ disk.exists
        /\ ValidPaths(disk) = {<<>>}
        /\ disk = ast_store(NoFile, call).disk
        /\ ast_store(disk, call).disk = disk
        /\ ast_store(disk, call).res = res

\* The init was made over a file whose root had a child with a child.
C7_Witness ==
    /\ C7_Case
    /\ pre.exists
    /\ <<0, 0>> \in ValidPaths(pre)
    /\ res.ok

----------------------------------------------------------------------------
(* C8 *)

\* The outstanding call is an init that succeeded.
C8_Case == call.action = "init" /\ res.ok

\* The response of load on file d.
LoadResponse(d) == ast_store(d, [DefaultArgs EXCEPT !.action = "load"]).res

\* What init then load returns apart from the root title.
C8_Rest(r) ==
    /\ r.ok
    /\ r.ast.file_name = call.file_name[1]
    /\ r.ast.root.content_summary =
           (IF IsNone(call.root_summary) THEN <<>> ELSE call.root_summary[1])
    /\ r.ast.root.children = <<>>

\* C8 as stated: load after init returns the given file_name, the root title
\* equal to the given root_title, or to file_name if root_title is omitted,
\* the given root_summary, or "" if omitted, and no children.
C8_AsStated ==
    C8_Case =>
        LET r == LoadResponse(disk)
        IN  /\ C8_Rest(r)
            /\ r.ast.root.section_title =
                   (IF IsNone(call.root_title) THEN Some(call.file_name[1])
                    ELSE call.root_title)

\* C8, amended: the root title is file_name also when root_title is the
\* empty string.
C8_InitThenLoad ==
    C8_Case =>
        LET r == LoadResponse(disk)
        IN  /\ C8_Rest(r)
            /\ r.ast.root.section_title =
                   (IF IsNone(call.root_title) \/ call.root_title = Some(<<>>)
                    THEN Some(call.file_name[1])
                    ELSE call.root_title)

\* An init given the empty string for root_title.
C8_Witness ==
    /\ C8_Case
    /\ call.root_title = Some(<<>>)
    /\ LoadResponse(disk).ast.root.section_title = call.file_name

----------------------------------------------------------------------------
(* C9 *)

LoadType == {"load", "load_subtree", "find_by_title"}

C9_Case == call.action \in LoadType

\* C9: load, load_subtree and find_by_title leave the file as it was,
\* whether they succeed or fail.
C9_LoadTypeReadOnly == C9_Case => disk = pre

\* A load_subtree that returned a node below the root.
C9_Witness ==
    /\ C9_Case
    /\ call.action = "load_subtree"
    /\ pre.exists
    /\ res.ok
    /\ NodePath # <<>>

----------------------------------------------------------------------------
(* C10 *)

\* The paths of the nodes at and below node, the node before its children
\* and the children in index order; PreOrderKids lists those of the children
\* from index i on.
RECURSIVE PreOrder(_, _)
RECURSIVE PreOrderKids(_, _, _)
PreOrder(node, path) ==
    <<path>> \o PreOrderKids(node.children, 0, path)

PreOrderKids(children, i, path) ==
    IF i >= Len(children) THEN <<>>
    ELSE PreOrder(children[i + 1], Append(path, i))
             \o PreOrderKids(children, i + 1, path)

\* q occurs in t as a contiguous run of characters.
Contains(q, t) ==
    \E i \in 0..(Len(t) - Len(q)) : SubSeq(t, i + 1, i + Len(q)) = q

\* The title of node contains the query of the call, both lowered unless
\* the call is case_sensitive; a node without title has the title "".
TitleContainsQuery(node) ==
    LET t == IF IsNone(node.section_title) THEN <<>> ELSE node.section_title[1]
        q == call.title_query[1]
    IN  IF call.case_sensitive THEN Contains(q, t)
        ELSE Contains(lower(q), lower(t))

\* The outstanding call is a find_by_title on a tree with a non-empty query
\* and max_results >= 1.
C10_Case ==
    /\ call.action = "find_by_title"
    /\ pre.exists
    /\ Truthy(call.title_query)
    /\ call.max_results >= 1

\* The paths of all matching nodes of the tree, in pre-order.
C10_Hits ==
    LET root == AstOf(pre).root
        Hit(p) == TitleContainsQuery(Descend(root, p))
    IN  SelectSeq(PreOrder(root, <<>>), Hit)

\* C10: find_by_title with a non-empty query and max_results = k >= 1
\* returns the first min(k, M) of the M matching nodes in pre-order, each
\* with its path and title, and load_subtree on a returned path gives a node
\* with the returned title.
C10_FindFirstMatches ==
    C10_Case =>
        LET k == call.max_results
            n == IF k <= Len(C10_Hits) THEN k ELSE Len(C10_Hits)
        IN  /\ res.ok
            /\ Len(res.matches) = n
            /\ \A i \in 1..n :
                   LET m == res.matches[i]
                       r == ResponseAt(disk, "load_subtree", m.path)
                   IN  /\ m.path = C10_Hits[i]
                       /\ r.ok
                       /\ r.node.section_title = m.section_title

\* max_results = 1 with two matches, a grandchild and after it in pre-order
\* the second child of the root: the grandchild alone is returned.
C10_Witness ==
    /\ C10_Case
    /\ call.max_results = 1
    /\ C10_Hits = <<(<<0, 0>>), (<<1>>)>>
    /\ Len(res.matches) = 1
    /\ res.matches[1].path = <<0, 0>>

----------------------------------------------------------------------------
(* C11 *)

\* The outstanding call is a find_by_title on a tree with the query omitted
\* or the empty string.
C11_Case ==
    /\ call.action = "find_by_title"
    /\ pre.exists
    /\ ~ Truthy(call.title_query)

\* C11: find_by_title with an empty or absent query answers ok with no
\* matches, whatever the tree, max_results and case_sensitive are.
C11_EmptyQueryNoMatches == C11_Case => res.ok /\ res.matches = <<>>

\* The empty string as query, compared case-sensitively, on a tree of
\* several titled nodes, each of whose titles contains it.
C11_Witness ==
    /\ C11_Case
    /\ call.title_query = Some(<<>>)
    /\ call.case_sensitive
    /\ Len(KidsAt(pre, <<>>)) >= 2
    /\ res.matches = <<>>

----------------------------------------------------------------------------
(* C12 *)

Mutating ==
    {"append_child", "upsert_child_by_title", "update_node",
     "append_to_summary"}

\* json is the document of a node: an object of a title that is null or a
\* string, a summary that is a string and children that are an array of
\* documents of nodes.
RECURSIVE WellFormedNode(_)
WellFormedNode(json) ==
    /\ Len(json) = 4
    /\ json[1] = "object"
    /\ json[2] = <<"null">> \/ (Len(json[2]) = 2 /\ json[2][1] = "string")
    /\ Len(json[3]) = 2 /\ json[3][1] = "string"
    /\ Len(json[4]) = 2 /\ json[4][1] = "array"
    /\ \A i \in 1..Len(json[4][2]) : WellFormedNode(json[4][2][i])

\* text is the document of a tree: an object of a file_name and one root.
WellFormedTree(text) ==
    /\ Len(text) = 3
    /\ text[1] = "object"
    /\ Len(text[2]) = 2 /\ text[2][1] = "string"
    /\ WellFormedNode(text[3])

\* The outstanding call is a mutating operation that succeeded.
C12_Case == call.action \in Mutating /\ res.ok

\* C12: a mutating operation that succeeded leaves a file holding a
\* file_name and one root, every node with a list of children that are nodes;
\* load then succeeds, and so does load_subtree of every path in bounds.
C12_StructurallyValid ==
    C12_Case =>
        /\ disk.exists
        /\ WellFormedTree(disk.text)
        /\ LoadResponse(disk).ok
        /\ \A p \in ValidPaths(disk) :
               LET r == ResponseAt(disk, "load_subtree", p)
               IN  r.ok /\ r.node = Descend(LoadResponse(disk).ast.root, p)

\* An append_child under a child of the root: the new leaf is loaded with
\* an empty list of children.
C12_Witness ==
    /\ C12_Case
    /\ call.action = "append_child"
    /\ Len(res.new_node_path) = 2
    /\ ResponseAt(disk, "load_subtree", res.new_node_path).node.children = <<>>

----------------------------------------------------------------------------
(* C13 *)

\* The title and the summary of the node at path p of file d.
FieldsAt(d, p) ==
    LET node == Descend(AstOf(d).root, p)
    IN  <<node.section_title, node.content_summary>>

\* The outstanding call is an update_node of a node of the tree.
C13_Case ==
    /\ call.action = "update_node"
    /\ pre.exists
    /\ NodePath \in ValidPaths(pre)

\* C13: update_node with neither field fails and leaves the file as it was;
\* otherwise it succeeds, the node has the title given, or its old one if
\* none was, and the summary given, or its old one if none was, and the
\* same nodes are at the same paths with every other node's title and
\* summary as before.
C13_UpdateOnlySupplied ==
    C13_Case =>
        IF IsNone(call.section_title) /\ IsNone(call.content_summary)
        THEN ~ res.ok /\ disk = pre
        ELSE /\ res.ok
             /\ AstOf(disk).file_name = AstOf(pre).file_name
             /\ ValidPaths(disk) = ValidPaths(pre)
             /\ \A p \in ValidPaths(pre) \ {NodePath} :
                    FieldsAt(disk, p) = FieldsAt(pre, p)
             /\ FieldsAt(disk, NodePath) =
                    <<IF IsNone(call.section_title)
                      THEN FieldsAt(pre, NodePath)[1] ELSE call.section_title,
                      IF IsNone(call.content_summary)
                      THEN FieldsAt(pre, NodePath)[2]
                      ELSE call.content_summary[1]>>

\* Only a title is given for a node that has a summary and a child.
C13_Witness ==
    /\ C13_Case
    /\ res.ok
    /\ IsNone(call.content_summary)
    /\ FieldsAt(pre, NodePath)[2] # <<>>
    /\ FieldsAt(pre, NodePath)[1] # call.section_title
    /\ KidsAt(pre, NodePath) # <<>>
    /\ KidsAt(disk, NodePath) = KidsAt(pre, NodePath)

----------------------------------------------------------------------------
(* C14 *)

\* s without the white space at its end: its prefix up to the last
\* character that is not white space.
TrailingRemoved(s) ==
    LET ends == {k \in 0..Len(s) : k = 0 \/ ~ IsSpace(s[k])}
    IN  SubSeq(s, 1, CHOOSE k \in ends : \A j \in ends : j <= k)

\* s without the white space at its start: its suffix from the first
\* character that is not white space.
LeadingRemoved(s) ==
    LET starts == {k \in 1..(Len(s) + 1) : k = Len(s) + 1 \/ ~ IsSpace(s[k])}
    IN  SubSeq(s, CHOOSE k \in starts : \A j \in starts : k <= j, Len(s))

\* The children of the parent of the node at the non-empty path p that come
\* before that node.
EarlierSiblings(d, p) ==
    SubSeq(KidsAt(d, SubSeq(p, 1, Len(p) - 1)), 1, p[Len(p)])

\* The upsert_child_by_title under the parent of the node at path p of file
\* d, with that node's title and the text given.
UpsertOnto(d, p, text) ==
    ast_store(d, [DefaultArgs EXCEPT
                     !.action = "upsert_child_by_title",
                     !.parent_path = Some(SubSeq(p, 1, Len(p) - 1)),
                     !.section_title = FieldsAt(d, p)[1],
                     !.content_summary = Some(text)])

\* The outstanding call is an append_to_summary that succeeded.
C14_Case == call.action = "append_to_summary" /\ res.ok

\* C14: append_to_summary leaves exactly the text on a node with an empty
\* summary, and otherwise the old summary without its trailing white space,
\* a newline, and the text without its leading white space; an upsert that
\* appends the same text to the same node leaves the same file.
C14_AppendJoinRule ==
    C14_Case =>
        LET old == FieldsAt(pre, NodePath)[2]
            text == call.append_text[1]
            title == FieldsAt(pre, NodePath)[1]
        IN  /\ FieldsAt(disk, NodePath)[2] =
                   IF old = <<>> THEN text
                   ELSE TrailingRemoved(old) \o <<"\n">> \o LeadingRemoved(text)
            /\ (/\ NodePath # <<>>
                /\ Truthy(title)
                /\ ~ HasChildTitled(EarlierSiblings(pre, NodePath), title))
               => LET upsert == UpsertOnto(pre, NodePath, text)
                  IN  /\ upsert.res.ok
                      /\ upsert.res.op = "appended"
                      /\ upsert.res.node_path = NodePath
                      /\ upsert.disk = disk

\* Text with white space on both sides appended to a summary that ends in
\* white space.
C14_Witness ==
    /\ C14_Case
    /\ call.append_text = Some(<<" ", "x", " ">>)
    /\ FieldsAt(pre, NodePath)[2] = <<" ", "x", " ">>
    /\ FieldsAt(disk, NodePath)[2] = <<" ", "x", "\n", "x", " ">>
    /\ UpsertOnto(pre, NodePath, <<" ", "x", " ">>).res.op = "appended"

----------------------------------------------------------------------------
(* C15 *)

\* The kinds of failure of a call: a required argument missing (both fields
\* of update_node among them), no file, a path index out of bounds, a
\* position out of range, an action that is none of the eight.
ErrorKinds ==
    {"required", "AST file not found", "IndexError", "position out of range",
     "Unknown action"}

\* A call is outstanding.
C15_Case == call # NoCall

\* C15: every call returns a response with a Boolean ok; one with ok false
\* carries an error, of one of the kinds above, and the file is as it was
\* before the call.
C15_UniformFailure ==
    C15_Case =>
        /\ "ok" \in DOMAIN res
        /\ res.ok \in BOOLEAN
        /\ ~ res.ok => /\ "error" \in DOMAIN res
                       /\ res.error.kind \in ErrorKinds
                       /\ disk = pre

\* An upsert_child_by_title on a tree, given the empty string for a title.
C15_Witness ==
    /\ C15_Case
    /\ call.action = "upsert_child_by_title"
    /\ call.section_title = Some(<<>>)
    /\ pre.exists
    /\ ~ res.ok
    /\ res.error = [kind |-> "required", field |-> "section_title",
                    action |-> "upsert_child_by_title"]
    /\ disk = pre

----------------------------------------------------------------------------
(* C16 *)

\* The outstanding call is a find_by_title on a tree with a non-empty query.
C16_Case ==
    /\ call.action = "find_by_title"
    /\ pre.exists
    /\ Truthy(call.title_query)

\* C16 as stated: find_by_title never returns more matches than max_results,
\* also when max_results is 0 or negative.
C16_AsStated == C16_Case => Len(res.matches) <= call.max_results

\* C16, amended: find_by_title never returns more matches than max_results,
\* or than one when max_results is below one, and returns that many when
\* the tree has as many matching nodes.
C16_CapAtLeastOne ==
    C16_Case =>
        LET cap == IF call.max_results < 1 THEN 1 ELSE call.max_results
        IN  /\ Len(res.matches) <= cap
            /\ Len(C10_Hits) >= cap => Len(res.matches) = cap
            /\ Len(C10_Hits) < cap => Len(res.matches) = Len(C10_Hits)

\* max_results = 0 on a tree with two matching nodes: one is returned.
C16_Witness ==
    /\ C16_Case
    /\ call.max_results = 0
    /\ Len(C10_Hits) >= 2
    /\ Len(res.matches) = 1

----------------------------------------------------------------------------
(* C17 *)

\* The indices (from 0) of the children in kids titled exactly title.
TitledIndices(kids, title) ==
    {i \in 0..(Len(kids) - 1) : kids[i + 1].section_title = title}

\* The outstanding call is an upsert that succeeded under a parent with a
\* child of the title given.
C17_Case ==
    /\ call.action = "upsert_child_by_title"
    /\ res.ok
    /\ TitledIndices(KidsAt(pre, ParentPath), call.section_title) # {}

\* C17: an upsert under a parent with one or several children of the title
\* returns op=appended and the path of the one of lowest index, joins the
\* text onto the summary of that child, and leaves its title, every other
\* node and the paths of all nodes as they were.
C17_FirstMatchOnly ==
    C17_Case =>
        LET hits == TitledIndices(KidsAt(pre, ParentPath), call.section_title)
            first == CHOOSE i \in hits : \A j \in hits : i <= j
            target == Append(ParentPath, first)
            old == FieldsAt(pre, target)[2]
            text == call.content_summary[1]
        IN  /\ res.op = "appended"
            /\ res.node_path = target
            /\ ValidPaths(disk) = ValidPaths(pre)
            /\ \A p \in ValidPaths(pre) \ {target} :
                   FieldsAt(disk, p) = FieldsAt(pre, p)
            /\ FieldsAt(disk, target) =
                   <<call.section_title,
                     IF old = <<>> THEN text
                     ELSE TrailingRemoved(old) \o <<"\n">>
                              \o LeadingRemoved(text)>>

\* Two children of the title, the second with a summary of its own, and a
\* text that is not empty: the first alone takes the text.
C17_Witness ==
    /\ C17_Case
    /\ TitledIndices(KidsAt(pre, ParentPath), call.section_title) = {0, 1}
    /\ call.content_summary = Some(<<" ", "x", " ">>)
    /\ FieldsAt(pre, Append(ParentPath, 1))[2] # <<>>
    /\ FieldsAt(disk, Append(ParentPath, 0))[2] # FieldsAt(pre, Append(ParentPath, 0))[2]
    /\ FieldsAt(disk, Append(ParentPath, 1)) = FieldsAt(pre, Append(ParentPath, 1))

----------------------------------------------------------------------------
(* C18 *)

\* The file a call c running alone on file d leaves.
FileAfter(d, c) == ast_store(d, c).disk

\* What ast_path names, as the file a caller calling alone would find.
PathFile == [exists |-> FileOf(fs).exists, text |-> FileOf(fs).text]

\* One process runs a call that writes, the other a call that reads.
C18_Case ==
    /\ Len(proc) = 2
    /\ proc[1].call.action \notin LoadType
    /\ proc[2].call.action \in LoadType

\* C18: while one process runs a mutating operation, ast_path names at every
\* step either the whole file from before the operation or the whole file
\* the operation leaves, and the response of a process reading is the one
\* it would get on one of the two.
C18_ReaderSeesWhole ==
    C18_Case =>
        LET after == FileAfter(start, proc[1].call)
        IN  /\ FileOf(fs).parses
            /\ PathFile \in {start, after}
            /\ proc[2].pc = "done" =>
                   proc[2].res \in {ast_store(start, proc[2].call).res,
                                    ast_store(after, proc[2].call).res}

\* The reader has loaded the tree and returned while the writer is between
\* two writes to the temporary file.
C18_Witness ==
    /\ C18_Case
    /\ proc[1].pc = "write"
    /\ proc[1].off > 0
    /\ proc[1].off < Len(proc[1].text)
    /\ proc[2].pc = "done"
    /\ proc[2].res.ok

----------------------------------------------------------------------------
(* C19 *)

\* Two processes ran mutating operations and both have returned.
C19_Case ==
    /\ Len(proc) = 2
    /\ \A p \in 1..2 : proc[p].call.action \in Mutating /\ proc[p].pc = "done"

\* The processes that computed a tree and went on to write it.
C19_Writers == {p \in 1..2 : proc[p].text # <<>>}

\* C19 as stated: when two processes have run mutating operations
\* concurrently, the file is the whole text one of them computed from the
\* tree it loaded.
C19_LastWriteWins ==
    (C19_Case /\ C19_Writers # {}) =>
        /\ fs.path # 0
        /\ fs.data[fs.path] \in {proc[p].text : p \in C19_Writers}

----------------------------------------------------------------------------
(* C20 *)

\* path p runs through the children of the node at path q: q is a proper
\* prefix of p.
Below(p, q) == Len(p) > Len(q) /\ SubSeq(p, 1, Len(q)) = q

\* The outstanding call is an operation other than init on a tree.
C20_Case == call.action \in Mutating \cup LoadType /\ pre.exists

\* The outstanding call inserted a node at an explicit position.
C20_Inserted ==
    call.action = "append_child" /\ res.ok /\ ~ IsNone(call.position)

\* Where the claim puts the node that was at path p before the call: one
\* index further at the depth of the insertion if it is, or is below, a
\* child of the parent at or after the position given, and at p otherwise.
C20_PathAfter(p) ==
    IF /\ C20_Inserted
       /\ Below(p, ParentPath)
       /\ p[Len(ParentPath) + 1] >= call.position[1]
    THEN [p EXCEPT ![Len(ParentPath) + 1] = @ + 1]
    ELSE p

\* The outstanding call made a node.
C20_Made ==
    /\ res.ok
    /\ \/ call.action = "append_child"
       \/ call.action = "upsert_child_by_title" /\ res.op = "created"

\* The path of the node the outstanding call made.
C20_NewPath ==
    IF call.action = "append_child" THEN res.new_node_path ELSE res.node_path

\* The node the outstanding call wrote a title or summary to, if any.
C20_Written ==
    IF ~ res.ok THEN {}
    ELSE IF call.action \in {"update_node", "append_to_summary"}
    THEN {NodePath}
    ELSE IF call.action = "upsert_child_by_title" /\ res.op = "appended"
    THEN {res.node_path}
    ELSE {}

\* C20: an operation other than init keeps every node: the node that was
\* at path p is afterwards at p, or, after an append_child with a position,
\* one index further if it is or is below a child at or after that
\* position; nodes keep their order and, unless the call wrote to them,
\* their title and summary; and there is one node more after a successful
\* append_child or an upsert that created, and as many nodes after any
\* other call.
C20_PathStability ==
    C20_Case =>
        LET old_paths == ValidPaths(pre)
            new_paths == ValidPaths(disk)
            kept == {C20_PathAfter(p) : p \in old_paths}
        IN  /\ kept \subseteq new_paths
            /\ \A p, q \in old_paths : p # q => C20_PathAfter(p) # C20_PathAfter(q)
            /\ \A p \in old_paths \ C20_Written :
                   FieldsAt(disk, C20_PathAfter(p)) = FieldsAt(pre, p)
            /\ \A p \in old_paths :
                   Len(KidsAt(disk, C20_PathAfter(p))) =
                       Len(KidsAt(pre, p))
                           + (IF C20_Made /\ p = ParentPath THEN 1 ELSE 0)
            /\ new_paths = kept \cup (IF C20_Made THEN {C20_NewPath} ELSE {})
            /\ Cardinality(new_paths) =
                   Cardinality(old_paths) + (IF C20_Made THEN 1 ELSE 0)

\* An insert at position 0 before a child titled otherwise that has a child:
\* both are found one index further.
C20_Witness ==
    /\ C20_Case
    /\ C20_Inserted
    /\ ParentPath = <<>>
    /\ call.position = Some(0)
    /\ <<0, 0>> \in ValidPaths(pre)
    /\ FieldsAt(pre, <<0>>)[1] # call.section_title
    /\ FieldsAt(disk, <<1>>) = FieldsAt(pre, <<0>>)
    /\ <<1, 0>> \in ValidPaths(disk)
    /\ <<0, 0>> \notin ValidPaths(disk)

====
